---- MODULE Spec2Model ----
(***************************************************************************)
(* State-machine model of the storefront theme's client-side widgets:      *)
(*   - cartDrawer          (src/assets/alpine-components.js)               *)
(*   - alpineAnnouncement  (src/assets/alpine-components.js and the copy   *)
(*                          appended to src/tailwind.config.js)            *)
(*   - productGallery      (src/assets/alpine-components.js)               *)
(*   - mobileMenu          (src/assets/alpine-components.js)               *)
(*   - alpineHeader        (src/tailwind.config.js)                        *)
(* JavaScript runs every handler to completion; an `await` splits an async *)
(* method into separate steps, between which any other handler may run.    *)
(***************************************************************************)
EXTENDS Integers, Sequences, FiniteSets, TLC

(***************************************************************************)
(* Bounds of the model.                                                    *)
(***************************************************************************)
\* number of fetch() calls the cart drawer may issue in one behaviour
MaxRequests == 3
\* largest totalMessages an announcement bar is attached with
MaxTotal == 3
\* number of setInterval() calls in one behaviour
MaxTimers == 3
\* the clock advances in steps of DayStep days, up to MaxDay
DayStep == 15
MaxDay == 31
\* a rotation interval is TicksPerInterval steps of the millisecond clock
TicksPerInterval == 2
\* consecutive next() calls that are counted
MaxRun == 3
\* largest images.length a gallery is created with
MaxImages == 3
\* how far the index of a gallery without images is followed
MaxDrift == 2

\* JavaScript null (for string-valued and object-valued fields)
Null == "null"

(***************************************************************************)
(* CART DRAWER                                                             *)
(***************************************************************************)
VARIABLES
    cartInited,   \* init() has run (Alpine calls it once on attach)
    isOpen,       \* cartDrawer.isOpen
    isLoading,    \* cartDrawer.isLoading
    cart,         \* cartDrawer.cart: Null or the last applied cart JSON
    error,        \* cartDrawer.error: Null or a message
    bodyClass,    \* document.body.classList
    inflight,     \* async calls suspended at an await
    nextId,       \* id of the next fetch() call
    sent,         \* network log: every request handed to fetch(), in order
    resolved,     \* completion log: every finished async call, in order
    dispatched,   \* `cart:updated` events dispatched on window, in order
    nUpdateCalls, \* number of updateQuantity() invocations so far
    nRefreshCalls \* number of refreshCart() invocations so far

cartVars == <<cartInited, isOpen, isLoading, cart, error, bodyClass, inflight,
              nextId, sent, resolved, dispatched, nUpdateCalls, nRefreshCalls>>

\* the announcement bar's state
VARIABLES
    annPhase,        \* "none": no widget on the page; "attached"; "destroyed"
    variant,         \* which of the two registered definitions is attached
    currentIndex,    \* alpineAnnouncement.currentIndex
    totalMessages,   \* alpineAnnouncement.totalMessages
    rotationSpeed,   \* alpineAnnouncement.rotationSpeed
    intervalId,      \* alpineAnnouncement.intervalId (NoTimer for null)
    isPaused,        \* alpineAnnouncement.isPaused
    isClosed,        \* alpineAnnouncement.isClosed
    sectionId,       \* alpineAnnouncement.sectionId
    showCloseButton, \* alpineAnnouncement.showCloseButton
    timers,          \* the browser's live interval timers of this page
    nextTimerId,     \* the id the next setInterval() returns
    cookieJar,       \* the browser's cookies for the site
    now,             \* the date, in days
    manuallyStopped, \* history: stopRotation() was called and no timer started since
    closedAt,        \* history: per section, {the day of the last closeAnnouncement()}
    elapsed,         \* per live timer, the time since it was set or last fired
    nextRun          \* history: {k} after k next() calls in a row since attach

annVars == <<annPhase, variant, currentIndex, totalMessages, rotationSpeed,
             intervalId, isPaused, isClosed, sectionId, showCloseButton,
             timers, nextTimerId, cookieJar, now, manuallyStopped, closedAt,
             elapsed, nextRun>>

\* the product gallery's state
VARIABLES
    galleryPhase,    \* "none": no gallery on the page; "attached"
    images,          \* productGallery.images (the image references, in order)
    galleryIndex,    \* productGallery.currentIndex
    galleryRun       \* history: {k} after k next() calls in a row since creation

galleryVars == <<galleryPhase, images, galleryIndex, galleryRun>>

\* the header's state, and the page it scrolls with
VARIABLES
    headerPhase,     \* "none"; "inited": init() ran; "ready": $nextTick ran too
    mobileMenuOpen,  \* alpineHeader.mobileMenuOpen
    isSticky,        \* alpineHeader.isSticky
    stickyEnabled,   \* alpineHeader.stickyEnabled
    headerOffsetTop, \* alpineHeader.headerOffsetTop
    offsetTop,       \* $refs.header.offsetTop
    scrollY,         \* the page's scroll offset
    quirksMode       \* the document is in quirks mode

headerVars == <<headerPhase, mobileMenuOpen, isSticky, stickyEnabled,
                headerOffsetTop, offsetTop, scrollY, quirksMode>>

\* the mobile menu's state
VARIABLES
    menuIsOpen       \* mobileMenu.isOpen

menuVars == <<menuIsOpen>>

\* document.body.style
VARIABLES
    bodyOverflow,    \* document.body.style.overflow
    bodyPaddingRight \* document.body.style.paddingRight

bodyStyleVars == <<bodyOverflow, bodyPaddingRight>>

vars == <<cartVars, annVars, galleryVars, headerVars, menuVars, bodyStyleVars>>

\* what the operations of one widget leave alone
besidesCart == <<annVars, galleryVars, headerVars, menuVars, bodyStyleVars>>
besidesAnnouncement == <<cartVars, galleryVars, headerVars, menuVars, bodyStyleVars>>

\* the cart JSON documents the platform may answer with (opaque to the widget)
Carts == {"cartA", "cartB"}
LineItemKeys == {"k1"}
Quantities == {0, 2}

LoadErrorMessage == "Unable to load cart. Please refresh the page."
UpdateErrorMessage == "Unable to update cart. Please try again."

\* What fetch() may settle with: a rejection (transport error), or a Response
\* with a status and a body text.  A body is either the JSON text of a cart
\* or text that is not JSON.
Statuses == {200, 500}
Bodies == {<<"json", c>> : c \in Carts} \cup {<<"garbage">>}
FetchOutcomes ==
    {[type |-> "reject", status |-> 0, body |-> <<"garbage">>]} \cup
    [type : {"response"}, status : Statuses, body : Bodies]

\* Response.ok
ResponseOk(resp) == resp.status >= 200 /\ resp.status <= 299

\* response.json(): parses the body text; rejects when it is not JSON
JsonParses(body) == body[1] = "json"
JsonValue(body) == body[2]

\* number of successful snapshot replacements logged so far
OkCount(log) == Len(SelectSeq(log, LAMBDA e : e.ok))

\* the request object refreshCart() hands to fetch()
RefreshRequest == [method |-> "GET", url |-> "/cart.js", body |-> <<>>]

\* the request object updateQuantity() hands to fetch(): body is
\* JSON.stringify({id: lineItemKey, quantity: quantity})
UpdateRequest(lineItemKey, quantity) ==
    [method |-> "POST", url |-> "/cart/change.js",
     body |-> <<lineItemKey, quantity>>]

\* a suspended async call: which method, where it is suspended, and (as
\* history, for the properties) the snapshot and the number of applied
\* responses at the time it was issued
Suspended(id, kind, snapshot, log) ==
    [id |-> id, kind |-> kind, at |-> "fetch", body |-> <<"garbage">>,
     cartAtIssue |-> snapshot, okAtIssue |-> OkCount(log)]

\* an entry of the completion log
Completion(r, ok, payload) ==
    [id |-> r.id, kind |-> r.kind, ok |-> ok, payload |-> payload,
     cartAtIssue |-> r.cartAtIssue, okAtIssue |-> r.okAtIssue]

\* the window events init() subscribes refreshCart() to
RefreshesOn_listensToOwnBroadcast(type) ==
    type \in {"cart:add", "cart:update", "cart:updated"}

RefreshesOn(type) == type \in {"cart:add", "cart:update"}

\* the window events whose listener also opens the drawer
OpensOn(type) == type = "cart:add"

\* open()
open ==
    /\ isOpen' = TRUE
    /\ bodyClass' = bodyClass \cup {"overflow-hidden"}

\* close()
close ==
    /\ isOpen' = FALSE
    /\ bodyClass' = bodyClass \ {"overflow-hidden"}

\* refreshCart(), from the call to its suspension at `await fetch(...)`
refreshCart ==
    /\ nextId <= MaxRequests
    /\ isLoading' = TRUE
    /\ error' = Null
    /\ inflight' = inflight \cup {Suspended(nextId, "refreshCart", cart, resolved)}
    /\ sent' = Append(sent, RefreshRequest)
    /\ nextId' = nextId + 1
    /\ nRefreshCalls' = nRefreshCalls + 1

\* updateQuantity(), from the call to its suspension at `await fetch(...)`
updateQuantity(lineItemKey, quantity) ==
    /\ nextId <= MaxRequests
    /\ isLoading' = TRUE
    /\ error' = Null
    /\ inflight' = inflight \cup {Suspended(nextId, "updateQuantity", cart, resolved)}
    /\ sent' = Append(sent, UpdateRequest(lineItemKey, quantity))
    /\ nextId' = nextId + 1
    /\ nUpdateCalls' = nUpdateCalls + 1

(* ---- operations of the widget ---------------------------------------- *)

\* init(): subscribes to cart:add and cart:update, then loads the cart
CartInit ==
    /\ ~cartInited
    /\ cartInited' = TRUE
    /\ refreshCart
    /\ UNCHANGED <<isOpen, bodyClass, cart, resolved, dispatched, nUpdateCalls>>
    /\ UNCHANGED besidesCart

\* a window event of the given type reaches the listeners init() registered
WindowEvent(type) ==
    /\ cartInited
    /\ RefreshesOn(type)
    /\ refreshCart
    /\ IF OpensOn(type) THEN open ELSE UNCHANGED <<isOpen, bodyClass>>
    /\ UNCHANGED <<cartInited, cart, resolved, dispatched, nUpdateCalls>>
    /\ UNCHANGED besidesCart

\* a direct call of refreshCart()
RefreshCartCall ==
    /\ cartInited
    /\ refreshCart
    /\ UNCHANGED <<cartInited, isOpen, bodyClass, cart, resolved, dispatched,
                   nUpdateCalls>>
    /\ UNCHANGED besidesCart

\* a call of updateQuantity(lineItemKey, quantity)
UpdateQuantityCall(lineItemKey, quantity) ==
    /\ cartInited
    /\ updateQuantity(lineItemKey, quantity)
    /\ UNCHANGED <<cartInited, isOpen, bodyClass, cart, resolved, dispatched,
                   nRefreshCalls>>
    /\ UNCHANGED besidesCart

\* removeItem(lineItemKey): await this.updateQuantity(lineItemKey, 0)
RemoveItemCall(lineItemKey) ==
    /\ cartInited
    /\ updateQuantity(lineItemKey, 0)
    /\ UNCHANGED <<cartInited, isOpen, bodyClass, cart, resolved, dispatched,
                   nRefreshCalls>>
    /\ UNCHANGED besidesCart

CartOpen ==
    /\ cartInited
    /\ open
    /\ UNCHANGED <<cartInited, isLoading, cart, error, inflight, nextId, sent,
                   resolved, dispatched, nUpdateCalls, nRefreshCalls>>
    /\ UNCHANGED besidesCart

CartClose ==
    /\ cartInited
    /\ close
    /\ UNCHANGED <<cartInited, isLoading, cart, error, inflight, nextId, sent,
                   resolved, dispatched, nUpdateCalls, nRefreshCalls>>
    /\ UNCHANGED besidesCart

\* toggle(): this.isOpen ? this.close() : this.open()
CartToggle ==
    /\ cartInited
    /\ IF isOpen THEN close ELSE open
    /\ UNCHANGED <<cartInited, isLoading, cart, error, inflight, nextId, sent,
                   resolved, dispatched, nUpdateCalls, nRefreshCalls>>
    /\ UNCHANGED besidesCart

(* ---- continuations of the async methods ------------------------------ *)

\* refreshCart(), lines 74 and 79: this.cart = await response.json(), finally
RefreshCartThen_onlyLatestIssued(r, json) ==
    /\ cart' = IF r.id = nextId - 1 THEN json ELSE cart
    /\ isLoading' = FALSE
    /\ inflight' = inflight \ {r}
    /\ resolved' = Append(resolved, Completion(r, TRUE, json))
    /\ UNCHANGED <<cartInited, isOpen, bodyClass, error, nextId, sent,
                   dispatched, nUpdateCalls, nRefreshCalls>>

RefreshCartThen(r, json) ==
    /\ cart' = json
    /\ isLoading' = FALSE
    /\ inflight' = inflight \ {r}
    /\ resolved' = Append(resolved, Completion(r, TRUE, json))
    /\ UNCHANGED <<cartInited, isOpen, bodyClass, error, nextId, sent,
                   dispatched, nUpdateCalls, nRefreshCalls>>

\* refreshCart(), catch and finally
RefreshCartCatch_dropsSnapshot(r) ==
    /\ error' = LoadErrorMessage
    /\ cart' = Null
    /\ isLoading' = FALSE
    /\ inflight' = inflight \ {r}
    /\ resolved' = Append(resolved, Completion(r, FALSE, Null))
    /\ UNCHANGED <<cartInited, isOpen, bodyClass, nextId, sent, dispatched,
                   nUpdateCalls, nRefreshCalls>>

RefreshCartCatch(r) ==
    /\ error' = LoadErrorMessage
    /\ isLoading' = FALSE
    /\ inflight' = inflight \ {r}
    /\ resolved' = Append(resolved, Completion(r, FALSE, Null))
    /\ UNCHANGED <<cartInited, isOpen, bodyClass, cart, nextId, sent,
                   dispatched, nUpdateCalls, nRefreshCalls>>

\* window.dispatchEvent(new CustomEvent(type, {detail})): the event is logged
\* with the snapshot its listeners see, and the widget's own listeners run
\* synchronously, before dispatchEvent returns.  `r` is the call dispatching.
DispatchEvent(r, type, detail, snapshot) ==
    /\ dispatched' = Append(dispatched,
           [type |-> type, detail |-> detail, cartSeen |-> snapshot])
    /\ IF RefreshesOn(type) /\ nextId <= MaxRequests
       THEN /\ inflight' = (inflight \ {r}) \cup
                   {Suspended(nextId, "refreshCart", snapshot, resolved)}
            /\ sent' = Append(sent, RefreshRequest)
            /\ nextId' = nextId + 1
            /\ nRefreshCalls' = nRefreshCalls + 1
            /\ error' = Null
       ELSE /\ inflight' = inflight \ {r}
            /\ UNCHANGED <<sent, nextId, nRefreshCalls, error>>
    /\ IF RefreshesOn(type) /\ OpensOn(type) THEN open
       ELSE UNCHANGED <<isOpen, bodyClass>>

\* updateQuantity(), lines 104-108 and 113: replace the snapshot, broadcast
\* cart:updated, finally
UpdateQuantityThen_broadcastsFirst(r, updatedCart) ==
    /\ DispatchEvent(r, "cart:updated", updatedCart, cart)
    /\ cart' = updatedCart
    /\ isLoading' = FALSE
    /\ resolved' = Append(resolved, Completion(r, TRUE, updatedCart))
    /\ UNCHANGED <<cartInited, nUpdateCalls>>

UpdateQuantityThen(r, updatedCart) ==
    /\ cart' = updatedCart
    /\ DispatchEvent(r, "cart:updated", updatedCart, cart')
    /\ isLoading' = FALSE
    /\ resolved' = Append(resolved, Completion(r, TRUE, updatedCart))
    /\ UNCHANGED <<cartInited, nUpdateCalls>>

\* updateQuantity(), catch and finally
UpdateQuantityCatch_dropsSnapshot(r) ==
    /\ error' = UpdateErrorMessage
    /\ cart' = Null
    /\ isLoading' = FALSE
    /\ inflight' = inflight \ {r}
    /\ resolved' = Append(resolved, Completion(r, FALSE, Null))
    /\ UNCHANGED <<cartInited, isOpen, bodyClass, nextId, sent, dispatched,
                   nUpdateCalls, nRefreshCalls>>

UpdateQuantityCatch(r) ==
    /\ error' = UpdateErrorMessage
    /\ isLoading' = FALSE
    /\ inflight' = inflight \ {r}
    /\ resolved' = Append(resolved, Completion(r, FALSE, Null))
    /\ UNCHANGED <<cartInited, isOpen, bodyClass, cart, nextId, sent,
                   dispatched, nUpdateCalls, nRefreshCalls>>

Then(r, json) ==
    IF r.kind = "refreshCart" THEN RefreshCartThen(r, json)
    ELSE UpdateQuantityThen(r, json)

Catch(r) ==
    IF r.kind = "refreshCart" THEN RefreshCartCatch(r)
    ELSE UpdateQuantityCatch(r)

\* `await fetch(...)` settles: a rejection or a non-ok response throws into
\* the catch block; an ok response suspends the call again at
\* `await response.json()`
FetchSettles(r, outcome) ==
    /\ r \in inflight
    /\ r.at = "fetch"
    /\ IF outcome.type = "reject" \/ ~ResponseOk(outcome)
       THEN Catch(r)
       ELSE /\ inflight' = (inflight \ {r}) \cup
                   {[r EXCEPT !.at = "json", !.body = outcome.body]}
            /\ UNCHANGED <<cartInited, isOpen, isLoading, cart, error,
                           bodyClass, nextId, sent, resolved, dispatched,
                           nUpdateCalls, nRefreshCalls>>
    /\ UNCHANGED besidesCart

\* `await response.json()` settles: the parsed cart, or a rejection
JsonSettles(r) ==
    /\ r \in inflight
    /\ r.at = "json"
    /\ IF JsonParses(r.body) THEN Then(r, JsonValue(r.body)) ELSE Catch(r)
    /\ UNCHANGED besidesCart

CartNext ==
    \/ CartInit
    \/ \E type \in {"cart:add", "cart:update", "cart:updated"} : WindowEvent(type)
    \/ RefreshCartCall
    \/ \E k \in LineItemKeys, q \in Quantities : UpdateQuantityCall(k, q)
    \/ \E k \in LineItemKeys : RemoveItemCall(k)
    \/ CartOpen
    \/ CartClose
    \/ CartToggle
    \/ \E r \in inflight, outcome \in FetchOutcomes : FetchSettles(r, outcome)
    \/ \E r \in inflight : JsonSettles(r)

CartInit0 ==
    /\ cartInited = FALSE
    /\ isOpen = FALSE
    /\ isLoading = FALSE
    /\ cart = Null
    /\ error = Null
    /\ bodyClass = {}
    /\ inflight = {}
    /\ nextId = 1
    /\ sent = <<>>
    /\ resolved = <<>>
    /\ dispatched = <<>>
    /\ nUpdateCalls = 0
    /\ nRefreshCalls = 0

(***************************************************************************)
(* ANNOUNCEMENT BAR                                                        *)
(***************************************************************************)

\* intervalId: null
NoTimer == 0
\* closeAnnouncement(): setCookie(..., 'true', 30)
DismissalDays == 30
\* rotationSpeed = 5000 (default parameter)
DefaultRotationSpeed == 5000

Variants == {"alpine-components.js", "tailwind.config.js"}
SectionIds == {"", "promo"}
RotationSpeeds == {DefaultRotationSpeed, 3000}
Keys == {"ArrowLeft", "ArrowRight", "1", "2", "3", "4", "Enter"}

\* `announcement-${sectionId}-closed`
CookieName(sid) == <<"announcement-", sid, "-closed">>

\* document.cookie (read): the unexpired cookies
DocumentCookie(jar, today) == {c \in jar : c.expires > today}

\* getCookie(name): `; ${document.cookie}` is split on `; ${name}=`; only when
\* that gives exactly two parts (one cookie of that name) is the text up to the
\* next `;` returned
getCookie_wrongPartCount(name, jar, today) ==
    LET found == {c \in DocumentCookie(jar, today) : c.name = name}
    IN  IF Cardinality(found) + 1 = 3
        THEN (CHOOSE c \in found : TRUE).value
        ELSE Null

getCookie(name, jar, today) ==
    LET found == {c \in DocumentCookie(jar, today) : c.name = name}
    IN  IF Cardinality(found) + 1 = 2
        THEN (CHOOSE c \in found : TRUE).value
        ELSE Null

\* setCookie(name, value, days): document.cookie = `name=value;expires=..;path=/`
\* (the browser replaces the cookie of the same name and path)
setCookie(name, value, days, jar, today) ==
    {c \in jar : c.name # name} \cup
    {[name |-> name, value |-> value, expires |-> today + days]}

\* the timer fields of the widget together with the browser's timer table
TimerState == [intervalId |-> intervalId, timers |-> timers,
               nextTimerId |-> nextTimerId, stopped |-> manuallyStopped]

SetTimerState(st) ==
    /\ intervalId' = st.intervalId
    /\ timers' = st.timers
    /\ nextTimerId' = st.nextTimerId
    /\ manuallyStopped' = st.stopped

\* startRotation() that sets a timer without clearing the one it holds
startRotation_keepsOld(st) ==
    [intervalId |-> st.nextTimerId,
     timers |-> st.timers \cup {st.nextTimerId},
     nextTimerId |-> st.nextTimerId + 1,
     stopped |-> FALSE]

\* startRotation(): clear the current timer if any, then setInterval
startRotation(st) ==
    LET live == IF st.intervalId # NoTimer
                THEN st.timers \ {st.intervalId} ELSE st.timers
    IN  [intervalId |-> st.nextTimerId,
         timers |-> live \cup {st.nextTimerId},
         nextTimerId |-> st.nextTimerId + 1,
         stopped |-> FALSE]

\* stopRotation(): clear the current timer if any and forget it
stopRotation(st) ==
    IF st.intervalId # NoTimer
    THEN [st EXCEPT !.timers = st.timers \ {st.intervalId},
                    !.intervalId = NoTimer]
    ELSE st

\* next() that stays on the last message
next_stopsAtLast(index, total) ==
    IF index + 1 < total THEN index + 1 ELSE index

\* next()
next(index, total) == (index + 1) % total

\* previous()
previous(index, total) == (index - 1 + total) % total

\* the browser's timer table after a handler ran: a timer set in it starts
\* at 0, a cleared one is gone, the others are as they were
Restamped ==
    elapsed' = [t \in timers' |-> IF t \in DOMAIN elapsed THEN elapsed[t] ELSE 0]

\* a call that is not next() ends the count; a new one starts at index 0
Uncounted(index) == IF index = 0 THEN {0} ELSE {}

\* one more next() call in a row
Counted(run) == {k + 1 : k \in run} \cap (0..MaxRun)

configVars == <<variant, totalMessages, rotationSpeed, sectionId, showCloseButton>>
timerVars == <<intervalId, timers, nextTimerId, manuallyStopped>>
envVars == <<cookieJar, now, closedAt>>

\* the methods only the definition in alpine-components.js has
HasNavigation == variant = "alpine-components.js"

\* init(): read the dismissal cookie when there is a close button, and start
\* rotating when not closed and more than one message
init(show, sid, total, jar, today, st) ==
    LET closed == IF show
                  THEN getCookie(CookieName(sid), jar, today) = "true"
                  ELSE FALSE
    IN  [isClosed |-> closed,
         timer |-> IF ~closed /\ total > 1 THEN startRotation(st) ELSE st]

\* goTo(index) that restarts the timer before it looks at the index
goTo_restartsFirst(index, st) ==
    LET restarted == IF totalMessages > 1
                     THEN startRotation(stopRotation(st)) ELSE st
    IN  IF index >= 0 /\ index < totalMessages
        THEN [currentIndex |-> index, timer |-> restarted]
        ELSE [currentIndex |-> currentIndex, timer |-> restarted]

\* goTo(index) that leaves the running timer alone
goTo_keepsTimer(index, st) ==
    IF index >= 0 /\ index < totalMessages
    THEN [currentIndex |-> index, timer |-> st]
    ELSE [currentIndex |-> currentIndex, timer |-> st]

\* goTo(index): in range, set the index and (more than one message) restart
\* the timer; out of range, nothing
goTo(index, st) ==
    IF index >= 0 /\ index < totalMessages
    THEN [currentIndex |-> index,
          timer |-> IF totalMessages > 1
                    THEN startRotation(stopRotation(st)) ELSE st]
    ELSE [currentIndex |-> currentIndex, timer |-> st]

\* event.key >= '1' && event.key <= '3', for the keys of the model
IsDigit1to3(key) == key \in {"1", "2", "3"}

\* parseInt(event.key)
parseInt(key) ==
    CASE key = "1" -> 1 [] key = "2" -> 2 [] key = "3" -> 3 [] key = "4" -> 4

(* ---- operations of the widget ---------------------------------------- *)

\* Alpine creates the component with its parameters and calls init()
Attach(v, total, speed, sid, show) ==
    /\ annPhase = "none"
    /\ annPhase' = "attached"
    /\ variant' = v
    /\ currentIndex' = 0
    /\ totalMessages' = total
    /\ rotationSpeed' = speed
    /\ isPaused' = FALSE
    /\ sectionId' = sid
    /\ showCloseButton' = show
    /\ LET fresh == [intervalId |-> NoTimer, timers |-> timers,
                     nextTimerId |-> nextTimerId, stopped |-> FALSE]
           after == init(show, sid, total, cookieJar, now, fresh)
       IN  /\ isClosed' = after.isClosed
           /\ SetTimerState(after.timer)
    /\ UNCHANGED envVars
    /\ nextRun' = {0}
    /\ Restamped
    /\ UNCHANGED besidesAnnouncement

\* the interval callback without the pause flag: this.next()
Tick_ignoresPause(t) ==
    /\ t \in timers
    /\ elapsed[t] = TicksPerInterval
    /\ elapsed' = [elapsed EXCEPT ![t] = 0]
    /\ currentIndex' = next(currentIndex, totalMessages)
    /\ nextRun' = Counted(nextRun)
    /\ UNCHANGED <<annPhase, configVars, timerVars, envVars, isPaused, isClosed>>
    /\ UNCHANGED besidesAnnouncement

\* the interval callback of timer t: if (!this.isPaused) this.next()
\* (the definition in tailwind.config.js has no pause flag)
Tick(t) ==
    /\ t \in timers
    /\ elapsed[t] = TicksPerInterval
    /\ elapsed' = [elapsed EXCEPT ![t] = 0]
    /\ currentIndex' = IF HasNavigation /\ isPaused THEN currentIndex
                       ELSE next(currentIndex, totalMessages)
    /\ nextRun' = IF HasNavigation /\ isPaused THEN nextRun
                  ELSE Counted(nextRun)
    /\ UNCHANGED <<annPhase, configVars, timerVars, envVars, isPaused, isClosed>>
    /\ UNCHANGED besidesAnnouncement

NextCall ==
    /\ annPhase # "none"
    /\ currentIndex' = next(currentIndex, totalMessages)
    /\ UNCHANGED <<annPhase, configVars, timerVars, envVars, isPaused, isClosed>>
    /\ nextRun' = Counted(nextRun)
    /\ Restamped
    /\ UNCHANGED besidesAnnouncement

PreviousCall ==
    /\ annPhase # "none"
    /\ HasNavigation
    /\ currentIndex' = previous(currentIndex, totalMessages)
    /\ UNCHANGED <<annPhase, configVars, timerVars, envVars, isPaused, isClosed>>
    /\ nextRun' = Uncounted(currentIndex')
    /\ Restamped
    /\ UNCHANGED besidesAnnouncement

GoToCall(index) ==
    /\ annPhase # "none"
    /\ HasNavigation
    /\ LET after == goTo(index, TimerState)
       IN  /\ after.timer.nextTimerId <= MaxTimers + 1
           /\ currentIndex' = after.currentIndex
           /\ SetTimerState(after.timer)
    /\ UNCHANGED <<annPhase, configVars, envVars, isPaused, isClosed>>
    /\ nextRun' = IF index >= 0 /\ index < totalMessages
                  THEN Uncounted(index) ELSE nextRun
    /\ Restamped
    /\ UNCHANGED besidesAnnouncement

\* handleKeydown(event), reached through the listener init() puts on $el
Keydown(key) ==
    /\ annPhase # "none"
    /\ HasNavigation
    /\ LET after ==
             IF key = "ArrowLeft"
             THEN [currentIndex |-> previous(currentIndex, totalMessages),
                   timer |-> TimerState]
             ELSE IF key = "ArrowRight"
             THEN [currentIndex |-> next(currentIndex, totalMessages),
                   timer |-> TimerState]
             ELSE IF IsDigit1to3(key) /\ parseInt(key) - 1 < totalMessages
             THEN goTo(parseInt(key) - 1, TimerState)
             ELSE [currentIndex |-> currentIndex, timer |-> TimerState]
       IN  /\ after.timer.nextTimerId <= MaxTimers + 1
           /\ currentIndex' = after.currentIndex
           /\ SetTimerState(after.timer)
    /\ UNCHANGED <<annPhase, configVars, envVars, isPaused, isClosed>>
    /\ nextRun' = IF key = "ArrowRight" THEN Counted(nextRun)
                  ELSE IF key = "ArrowLeft"
                  THEN Uncounted(previous(currentIndex, totalMessages))
                  ELSE IF IsDigit1to3(key) /\ parseInt(key) - 1 < totalMessages
                  THEN Uncounted(parseInt(key) - 1)
                  ELSE nextRun
    /\ Restamped
    /\ UNCHANGED besidesAnnouncement

PauseRotation ==
    /\ annPhase # "none"
    /\ HasNavigation
    /\ isPaused' = TRUE
    /\ UNCHANGED <<annPhase, configVars, timerVars, envVars, currentIndex, isClosed>>
    /\ UNCHANGED nextRun
    /\ Restamped
    /\ UNCHANGED besidesAnnouncement

ResumeRotation ==
    /\ annPhase # "none"
    /\ HasNavigation
    /\ isPaused' = FALSE
    /\ UNCHANGED <<annPhase, configVars, timerVars, envVars, currentIndex, isClosed>>
    /\ UNCHANGED nextRun
    /\ Restamped
    /\ UNCHANGED besidesAnnouncement

\* a direct call of startRotation()
StartRotationCall ==
    /\ annPhase # "none"
    /\ nextTimerId <= MaxTimers
    /\ SetTimerState(startRotation(TimerState))
    /\ UNCHANGED <<annPhase, configVars, envVars, currentIndex, isPaused, isClosed>>
    /\ UNCHANGED nextRun
    /\ Restamped
    /\ UNCHANGED besidesAnnouncement

\* a direct call of stopRotation()
StopRotationCall ==
    /\ annPhase # "none"
    /\ SetTimerState([stopRotation(TimerState) EXCEPT !.stopped = TRUE])
    /\ UNCHANGED <<annPhase, configVars, envVars, currentIndex, isPaused, isClosed>>
    /\ UNCHANGED nextRun
    /\ Restamped
    /\ UNCHANGED besidesAnnouncement

\* closeAnnouncement(): isClosed = true, stopRotation(), setCookie(.., 'true', 30)
CloseAnnouncement_keepsRotating ==
    /\ annPhase # "none"
    /\ isClosed' = TRUE
    /\ cookieJar' = setCookie(CookieName(sectionId), "true", DismissalDays,
                              cookieJar, now)
    /\ closedAt' = [closedAt EXCEPT ![sectionId] = {now}]
    /\ UNCHANGED <<annPhase, configVars, timerVars, now, currentIndex, isPaused>>
    /\ UNCHANGED nextRun
    /\ Restamped
    /\ UNCHANGED besidesAnnouncement

CloseAnnouncement ==
    /\ annPhase # "none"
    /\ isClosed' = TRUE
    /\ SetTimerState(stopRotation(TimerState))
    /\ cookieJar' = setCookie(CookieName(sectionId), "true", DismissalDays,
                              cookieJar, now)
    /\ closedAt' = [closedAt EXCEPT ![sectionId] = {now}]
    /\ UNCHANGED <<annPhase, configVars, now, currentIndex, isPaused>>
    /\ UNCHANGED nextRun
    /\ Restamped
    /\ UNCHANGED besidesAnnouncement

\* destroy(), which Alpine calls when the element leaves the page
Destroy ==
    /\ annPhase = "attached"
    /\ annPhase' = "destroyed"
    /\ SetTimerState(stopRotation(TimerState))
    /\ UNCHANGED <<configVars, envVars, currentIndex, isPaused, isClosed>>
    /\ UNCHANGED nextRun
    /\ Restamped
    /\ UNCHANGED besidesAnnouncement

(* ---- the environment -------------------------------------------------- *)

\* the page is left: its objects and timers are gone, the cookies stay
Reload ==
    /\ annPhase # "none"
    /\ annPhase' = "none"
    /\ variant' = "alpine-components.js"
    /\ currentIndex' = 0
    /\ totalMessages' = 1
    /\ rotationSpeed' = DefaultRotationSpeed
    /\ intervalId' = NoTimer
    /\ isPaused' = FALSE
    /\ isClosed' = FALSE
    /\ sectionId' = ""
    /\ showCloseButton' = TRUE
    /\ timers' = {}
    /\ nextTimerId' = 1
    /\ manuallyStopped' = FALSE
    /\ UNCHANGED envVars
    /\ nextRun' = {}
    /\ Restamped
    /\ UNCHANGED besidesAnnouncement

\* the millisecond clock advances by one step: no timer is overdue, and
\* every live timer is one step closer to firing
TimePasses ==
    /\ timers # {}
    /\ \A t \in timers : elapsed[t] < TicksPerInterval
    /\ elapsed' = [t \in timers |-> elapsed[t] + 1]
    /\ UNCHANGED <<annPhase, configVars, timerVars, envVars, currentIndex,
                   isPaused, isClosed, nextRun>>
    /\ UNCHANGED besidesAnnouncement

\* days pass; the browser drops the cookies that expire
AdvanceTime ==
    /\ now + DayStep <= MaxDay
    /\ now' = now + DayStep
    /\ cookieJar' = DocumentCookie(cookieJar, now')
    /\ UNCHANGED <<annPhase, configVars, timerVars, currentIndex, isPaused,
                   isClosed, closedAt>>
    /\ UNCHANGED nextRun
    /\ Restamped
    /\ UNCHANGED besidesAnnouncement

AnnNext ==
    \/ \E v \in Variants, total \in 1..MaxTotal, speed \in RotationSpeeds,
          sid \in SectionIds, show \in BOOLEAN :
            Attach(v, total, speed, sid, show)
    \/ \E t \in timers : Tick(t)
    \/ NextCall
    \/ PreviousCall
    \/ \E index \in -1..MaxTotal : GoToCall(index)
    \/ \E key \in Keys : Keydown(key)
    \/ PauseRotation
    \/ ResumeRotation
    \/ StopRotationCall
    \/ CloseAnnouncement
    \/ Destroy
    \/ Reload
    \/ TimePasses
    \/ AdvanceTime

AnnInit0 ==
    /\ annPhase = "none"
    /\ variant = "alpine-components.js"
    /\ currentIndex = 0
    /\ totalMessages = 1
    /\ rotationSpeed = DefaultRotationSpeed
    /\ intervalId = NoTimer
    /\ isPaused = FALSE
    /\ isClosed = FALSE
    /\ sectionId = ""
    /\ showCloseButton = TRUE
    /\ timers = {}
    /\ nextTimerId = 1
    /\ cookieJar = {}
    /\ now = 0
    /\ manuallyStopped = FALSE
    /\ closedAt = [sid \in SectionIds |-> {}]
    /\ elapsed = <<>>
    /\ nextRun = {}

(***************************************************************************)
(* productGallery                                                          *)
(***************************************************************************)

\* the image references of a product with n images, in order
ImageFiles(n) == [i \in 1..n |-> "image" \o ToString(i)]

\* the indexes goTo is called with
GoToIndexes == (0 - 1)..(MaxImages + 1)

GalleryKeys == {"ArrowLeft", "ArrowRight", "Enter"}

\* get currentImage(): this.images[this.currentIndex] || null
currentImage ==
    IF galleryIndex + 1 \in DOMAIN images THEN images[galleryIndex + 1] ELSE Null

\* get hasMultipleImages(): this.images.length > 1
hasMultipleImages == Len(images) > 1

\* get isFirst(): this.currentIndex === 0
isFirst(index) == index = 0

\* get isLast(): this.currentIndex === this.images.length - 1
isLast(index, imgs) == index = Len(imgs) - 1

\* productGallery.next(): one further, or from the last image to the first
galleryNext(index, imgs) ==
    IF ~isLast(index, imgs) THEN index + 1 ELSE 0

\* productGallery.previous(): one back, or from the first image to the last
galleryPrevious(index, imgs) ==
    IF ~isFirst(index) THEN index - 1 ELSE Len(imgs) - 1

\* goTo(index) that takes images.length for an index
galleryGoTo_acceptsLength(target, index, imgs) ==
    IF target >= 0 /\ target <= Len(imgs) THEN target ELSE index

\* productGallery.goTo(index)
galleryGoTo(target, index, imgs) ==
    IF target >= 0 /\ target < Len(imgs) THEN target ELSE index

\* productGallery.handleKeydown(event)
galleryHandleKeydown(key, index, imgs) ==
    IF key = "ArrowLeft" THEN galleryPrevious(index, imgs)
    ELSE IF key = "ArrowRight" THEN galleryNext(index, imgs)
    ELSE index

\* the index of a gallery without images is followed up to MaxDrift
Followed(index) == index >= 0 - MaxDrift /\ index <= MaxDrift

\* Alpine creates the component: productGallery(images)
GalleryCreate(n) ==
    /\ galleryPhase = "none"
    /\ galleryPhase' = "attached"
    /\ images' = ImageFiles(n)
    /\ galleryIndex' = 0
    /\ galleryRun' = {0}
    /\ UNCHANGED <<cartVars, annVars, headerVars, menuVars, bodyStyleVars>>

GalleryNext ==
    /\ galleryPhase = "attached"
    /\ galleryIndex' = galleryNext(galleryIndex, images)
    /\ Followed(galleryIndex')
    /\ galleryRun' = Counted(galleryRun)
    /\ UNCHANGED <<galleryPhase, images>>
    /\ UNCHANGED <<cartVars, annVars, headerVars, menuVars, bodyStyleVars>>

GalleryPrevious ==
    /\ galleryPhase = "attached"
    /\ galleryIndex' = galleryPrevious(galleryIndex, images)
    /\ Followed(galleryIndex')
    /\ galleryRun' = Uncounted(galleryIndex')
    /\ UNCHANGED <<galleryPhase, images>>
    /\ UNCHANGED <<cartVars, annVars, headerVars, menuVars, bodyStyleVars>>

GalleryGoTo(target) ==
    /\ galleryPhase = "attached"
    /\ galleryIndex' = galleryGoTo(target, galleryIndex, images)
    /\ galleryRun' = IF target >= 0 /\ target < Len(images)
                     THEN Uncounted(target) ELSE galleryRun
    /\ UNCHANGED <<galleryPhase, images>>
    /\ UNCHANGED <<cartVars, annVars, headerVars, menuVars, bodyStyleVars>>

GalleryKeydown(key) ==
    /\ galleryPhase = "attached"
    /\ galleryIndex' = galleryHandleKeydown(key, galleryIndex, images)
    /\ Followed(galleryIndex')
    /\ galleryRun' = IF key = "ArrowRight" THEN Counted(galleryRun)
                     ELSE IF key = "ArrowLeft" THEN Uncounted(galleryIndex')
                     ELSE galleryRun
    /\ UNCHANGED <<galleryPhase, images>>
    /\ UNCHANGED <<cartVars, annVars, headerVars, menuVars, bodyStyleVars>>

\* the page with the gallery is left
GalleryRemove ==
    /\ galleryPhase = "attached"
    /\ galleryPhase' = "none"
    /\ images' = <<>>
    /\ galleryIndex' = 0
    /\ galleryRun' = {}
    /\ UNCHANGED <<cartVars, annVars, headerVars, menuVars, bodyStyleVars>>

GalleryNextStep ==
    \/ \E n \in 0..MaxImages : GalleryCreate(n)
    \/ GalleryNext
    \/ GalleryPrevious
    \/ \E target \in GoToIndexes : GalleryGoTo(target)
    \/ \E key \in GalleryKeys : GalleryKeydown(key)
    \/ GalleryRemove

(***************************************************************************)
(* alpineHeader                                                            *)
(***************************************************************************)

\* the distances of the header from the top of the document
OffsetTops == {0, 200}

\* the scroll offsets the page is scrolled to
ScrollOffsets == {0, 199, 200, 201}

HeaderKeys == {"Escape", "Enter"}

\* window.pageYOffset
pageYOffset == scrollY

\* document.documentElement.scrollTop: in quirks mode the body scrolls
documentElementScrollTop == IF quirksMode THEN 0 ELSE scrollY

\* a || b on numbers
OrElse(a, b) == IF a # 0 THEN a ELSE b

\* handleScroll() that is sticky only past the header's offset
handleScroll_strictlyPast(pageY, elementTop, recorded) ==
    OrElse(pageY, elementTop) > recorded

\* handleScroll(): the value it gives isSticky
handleScroll(pageY, elementTop, recorded) ==
    OrElse(pageY, elementTop) >= recorded

\* closeMobileMenu() that leaves the body style alone
closeMobileMenu_keepsLock ==
    /\ mobileMenuOpen' = FALSE
    /\ UNCHANGED bodyOverflow

\* closeMobileMenu()
closeMobileMenu ==
    /\ mobileMenuOpen' = FALSE
    /\ bodyOverflow' = ""

\* toggleMobileMenu()
toggleMobileMenu ==
    /\ mobileMenuOpen' = ~mobileMenuOpen
    /\ bodyOverflow' = IF mobileMenuOpen' THEN "hidden" ELSE ""

\* Alpine creates the component and calls init(): the $nextTick callback is
\* queued, the listeners are added
HeaderAttach(sticky, top, quirks) ==
    /\ headerPhase = "none"
    /\ headerPhase' = "inited"
    /\ mobileMenuOpen' = FALSE
    /\ isSticky' = FALSE
    /\ stickyEnabled' = sticky
    /\ headerOffsetTop' = 0
    /\ offsetTop' = top
    /\ quirksMode' = quirks
    /\ UNCHANGED scrollY
    /\ UNCHANGED <<cartVars, annVars, galleryVars, menuVars, bodyStyleVars>>

\* the $nextTick callback: this.headerOffsetTop = this.$refs.header.offsetTop
HeaderNextTick ==
    /\ headerPhase = "inited"
    /\ headerPhase' = "ready"
    /\ headerOffsetTop' = offsetTop
    /\ UNCHANGED <<mobileMenuOpen, isSticky, stickyEnabled, offsetTop, scrollY,
                   quirksMode>>
    /\ UNCHANGED <<cartVars, annVars, galleryVars, menuVars, bodyStyleVars>>

\* the page is scrolled to y; the scroll listener, if init() added one,
\* runs handleScroll()
Scroll(y) ==
    /\ y # scrollY
    /\ scrollY' = y
    /\ UNCHANGED <<headerPhase, mobileMenuOpen, stickyEnabled, headerOffsetTop,
                   offsetTop, quirksMode>>
    /\ isSticky' = IF headerPhase # "none" /\ stickyEnabled
                   THEN handleScroll(pageYOffset', documentElementScrollTop',
                                     headerOffsetTop)
                   ELSE isSticky
    /\ UNCHANGED <<cartVars, annVars, galleryVars, menuVars, bodyStyleVars>>

ToggleMobileMenu ==
    /\ headerPhase # "none"
    /\ toggleMobileMenu
    /\ UNCHANGED <<headerPhase, isSticky, stickyEnabled, headerOffsetTop,
                   offsetTop, scrollY, quirksMode, bodyPaddingRight>>
    /\ UNCHANGED <<cartVars, annVars, galleryVars, menuVars>>

CloseMobileMenu ==
    /\ headerPhase # "none"
    /\ closeMobileMenu
    /\ UNCHANGED <<headerPhase, isSticky, stickyEnabled, headerOffsetTop,
                   offsetTop, scrollY, quirksMode, bodyPaddingRight>>
    /\ UNCHANGED <<cartVars, annVars, galleryVars, menuVars>>

\* the keydown listener init() puts on document
HeaderKeydown(key) ==
    /\ headerPhase # "none"
    /\ IF key = "Escape" /\ mobileMenuOpen
       THEN closeMobileMenu
       ELSE UNCHANGED <<mobileMenuOpen, bodyOverflow>>
    /\ UNCHANGED <<headerPhase, isSticky, stickyEnabled, headerOffsetTop,
                   offsetTop, scrollY, quirksMode, bodyPaddingRight>>
    /\ UNCHANGED <<cartVars, annVars, galleryVars, menuVars>>

HeaderNext ==
    \/ \E sticky \in BOOLEAN, top \in OffsetTops, quirks \in BOOLEAN :
          HeaderAttach(sticky, top, quirks)
    \/ HeaderNextTick
    \/ \E y \in ScrollOffsets : Scroll(y)
    \/ ToggleMobileMenu
    \/ CloseMobileMenu
    \/ \E key \in HeaderKeys : HeaderKeydown(key)

(***************************************************************************)
(* mobileMenu                                                              *)
(***************************************************************************)

\* window.innerWidth - document.documentElement.clientWidth, as the page
\* has or has not a scrollbar
ScrollbarWidths == {0, 15}

\* getScrollbarWidth() + 'px'
Px(width) == ToString(width) \o "px"

\* mobileMenu.open()
menuOpen(width) ==
    /\ menuIsOpen' = TRUE
    /\ bodyOverflow' = "hidden"
    /\ bodyPaddingRight' = Px(width)

\* mobileMenu.close()
menuClose ==
    /\ menuIsOpen' = FALSE
    /\ bodyOverflow' = ""
    /\ bodyPaddingRight' = ""

MenuOpen(width) ==
    /\ menuOpen(width)
    /\ UNCHANGED <<cartVars, annVars, galleryVars, headerVars>>

MenuClose ==
    /\ menuClose
    /\ UNCHANGED <<cartVars, annVars, galleryVars, headerVars>>

\* toggle(): this.isOpen ? this.close() : this.open()
MenuToggle(width) ==
    /\ IF menuIsOpen THEN menuClose ELSE menuOpen(width)
    /\ UNCHANGED <<cartVars, annVars, galleryVars, headerVars>>

\* handleEscape(event)
MenuHandleEscape(key) ==
    /\ IF key = "Escape" /\ menuIsOpen
       THEN menuClose
       ELSE UNCHANGED <<menuVars, bodyStyleVars>>
    /\ UNCHANGED <<cartVars, annVars, galleryVars, headerVars>>

MenuNext ==
    \/ \E width \in ScrollbarWidths : MenuOpen(width)
    \/ MenuClose
    \/ \E width \in ScrollbarWidths : MenuToggle(width)
    \/ \E key \in HeaderKeys : MenuHandleEscape(key)

GalleryInit0 ==
    /\ galleryPhase = "none"
    /\ images = <<>>
    /\ galleryIndex = 0
    /\ galleryRun = {}

HeaderInit0 ==
    /\ headerPhase = "none"
    /\ mobileMenuOpen = FALSE
    /\ isSticky = FALSE
    /\ stickyEnabled = TRUE
    /\ headerOffsetTop = 0
    /\ offsetTop = 0
    /\ scrollY = 0
    /\ quirksMode = FALSE

MenuInit0 == menuIsOpen = FALSE

BodyStyleInit0 ==
    /\ bodyOverflow = ""
    /\ bodyPaddingRight = ""

(***************************************************************************)
(* Specifications: one per widget (the widgets share no state).            *)
(***************************************************************************)
Init ==
    /\ CartInit0
    /\ AnnInit0
    /\ GalleryInit0
    /\ HeaderInit0
    /\ MenuInit0
    /\ BodyStyleInit0

SpecCart == Init /\ [][CartNext]_vars
SpecAnnouncement == Init /\ [][AnnNext]_vars

\* the two widgets with an index: the gallery, and a rotator reduced to its
\* navigation and its timer
NavigationNext ==
    \/ GalleryNextStep
    \/ \E total \in 1..MaxTotal :
          Attach("alpine-components.js", total, DefaultRotationSpeed, "", FALSE)
    \/ \E t \in timers : Tick(t)
    \/ TimePasses
    \/ NextCall
    \/ PreviousCall
    \/ \E index \in (0 - 1)..MaxTotal : GoToCall(index)
    \/ \E key \in Keys : Keydown(key)

SpecNavigation == Init /\ [][NavigationNext]_vars

\* the rotator of one section on one day, with every call that touches its
\* timer, startRotation() included
RotationNext ==
    \/ \E v \in Variants, total \in 1..MaxTotal, show \in BOOLEAN :
          Attach(v, total, DefaultRotationSpeed, "", show)
    \/ \E t \in timers : Tick(t)
    \/ TimePasses
    \/ NextCall
    \/ PreviousCall
    \/ \E index \in (0 - 1)..MaxTotal : GoToCall(index)
    \/ \E key \in Keys : Keydown(key)
    \/ PauseRotation
    \/ ResumeRotation
    \/ StartRotationCall
    \/ StopRotationCall
    \/ CloseAnnouncement
    \/ Destroy
    \/ Reload

SpecRotation == Init /\ [][RotationNext]_vars

\* the header alone on its page
SpecHeader == Init /\ [][HeaderNext]_vars

\* the widgets that lock the page's scroll, on one page
OverlaysNext ==
    \/ \E sticky \in BOOLEAN, top \in OffsetTops, quirks \in BOOLEAN :
          HeaderAttach(sticky, top, quirks)
    \/ ToggleMobileMenu
    \/ CloseMobileMenu
    \/ \E key \in HeaderKeys : HeaderKeydown(key)
    \/ MenuNext
    \/ CartInit
    \/ CartOpen
    \/ CartClose
    \/ CartToggle

SpecOverlays == Init /\ [][OverlaysNext]_vars

(***************************************************************************)
(* PROPERTIES OF THE CART DRAWER (checked under SpecCart)                  *)
(***************************************************************************)

\* this step ends an async call (its catch or its success path ran)
Completes == Len(resolved') = Len(resolved) + 1
\* the call this step ends
Ended == resolved'[Len(resolved')]
\* the call that ended last
LastEnded == resolved[Len(resolved)]

\* C1: a failing updateQuantity (non-2xx, transport error or unparsable body)
\* does not write `cart` and ends with `error` non-null; when no other
\* response was applied while it was in flight, `cart` is the value it had
\* when the call was issued.
C1_UpdateFailureKeepsCart ==
    [][(Completes /\ Ended.kind = "updateQuantity" /\ ~Ended.ok) =>
          /\ cart' = cart
          /\ error' # Null
          /\ (OkCount(resolved) = Ended.okAtIssue => cart' = Ended.cartAtIssue)
      ]_vars

\* C1 witness: an updateQuantity issued on a loaded cart has just failed
C1_Witness ==
    /\ resolved # <<>>
    /\ LastEnded.kind = "updateQuantity"
    /\ ~LastEnded.ok
    /\ LastEnded.cartAtIssue \in Carts
    /\ cart = LastEnded.cartAtIssue
    /\ error = UpdateErrorMessage

\* C2: a failing refreshCart does not write `cart` (the snapshot is kept
\* whole) and sets `error` to the load message.
C2_RefreshFailureKeepsCart ==
    [][(Completes /\ Ended.kind = "refreshCart" /\ ~Ended.ok) =>
          /\ cart' = cart
          /\ error' = LoadErrorMessage
          /\ (OkCount(resolved) = Ended.okAtIssue => cart' = Ended.cartAtIssue)
      ]_vars

\* C2 witness: a refreshCart issued on a loaded cart has just failed
C2_Witness ==
    /\ resolved # <<>>
    /\ LastEnded.kind = "refreshCart"
    /\ ~LastEnded.ok
    /\ LastEnded.cartAtIssue \in Carts
    /\ cart = LastEnded.cartAtIssue
    /\ error = LoadErrorMessage

\* C3: right after a refreshCart completes successfully, `cart` is that
\* response's JSON and `error` is null, whatever else was issued or resolved
\* while it was in flight.
C3_RefreshSuccessClearsError ==
    [][(Completes /\ Ended.kind = "refreshCart" /\ Ended.ok) =>
          /\ cart' = Ended.payload
          /\ error' = Null
      ]_vars

\* the payload of the successful response that resolved last (Null: none yet)
LastOkPayload(log) ==
    LET oks == SelectSeq(log, LAMBDA e : e.ok)
    IN  IF oks = <<>> THEN Null ELSE oks[Len(oks)].payload

\* C4: responses are applied in resolution order: `cart` is always the
\* payload of the successful response that resolved last, in particular once
\* every request has resolved, whatever the order the requests were issued in.
C4_LastResolvedWins == cart = LastOkPayload(resolved)

\* C4 witness: everything has resolved, and the response applied last belongs
\* to a request issued before one whose (different) response was applied
\* earlier
C4_Witness ==
    /\ inflight = {}
    /\ \E i, j \in 1..Len(resolved) :
          /\ i < j
          /\ j = Len(resolved)
          /\ resolved[i].ok /\ resolved[j].ok
          /\ resolved[j].id < resolved[i].id
          /\ resolved[j].payload # resolved[i].payload
          /\ cart = resolved[j].payload

\* C5: a succeeding updateQuantity replaces `cart` with the response JSON and
\* broadcasts exactly one cart:updated event whose detail is that JSON, after
\* the replacement; no other step broadcasts, so a failing one does not.
C5_UpdateSuccessBroadcastsOnce ==
    [][IF Completes /\ Ended.kind = "updateQuantity" /\ Ended.ok
       THEN /\ cart' = Ended.payload
            /\ dispatched' = Append(dispatched,
                   [type |-> "cart:updated", detail |-> Ended.payload,
                    cartSeen |-> Ended.payload])
       ELSE dispatched' = dispatched
      ]_vars

\* C5 witness: one updateQuantity has failed, another has succeeded, and one
\* event is out
C5_Witness ==
    /\ \E i \in 1..Len(resolved) :
          resolved[i].kind = "updateQuantity" /\ ~resolved[i].ok
    /\ \E i \in 1..Len(resolved) :
          resolved[i].kind = "updateQuantity" /\ resolved[i].ok
    /\ Len(dispatched) = 1

\* the POSTs to /cart/change.js sent so far
ChangePosts ==
    SelectSeq(sent, LAMBDA q : q.method = "POST" /\ q.url = "/cart/change.js")

\* C6: every updateQuantity/removeItem call sends exactly one POST to
\* /cart/change.js; the step that issues a request leaves `cart` alone; and
\* a step that ends a call (failure, or success with its cart:updated
\* broadcast) sends nothing.
C6_OnePostNoRetry ==
    /\ [](Len(ChangePosts) = nUpdateCalls)
    /\ [][/\ (nUpdateCalls' # nUpdateCalls =>
                 /\ nUpdateCalls' = nUpdateCalls + 1
                 /\ Len(sent') = Len(sent) + 1
                 /\ sent'[Len(sent')].method = "POST"
                 /\ sent'[Len(sent')].url = "/cart/change.js"
                 /\ cart' = cart)
            /\ (Completes => sent' = sent /\ nextId' = nextId)
         ]_vars

\* C6 witness: two updateQuantity calls, one failed and one succeeded (and
\* broadcast), everything resolved, and only the three requests were sent
C6_Witness ==
    /\ inflight = {}
    /\ nUpdateCalls = 2
    /\ Len(sent) = 3
    /\ Len(dispatched) = 1
    /\ \E i \in 1..Len(resolved) :
          resolved[i].kind = "updateQuantity" /\ ~resolved[i].ok
    /\ \E i \in 1..Len(sent) : sent[i].body = <<"k1", 0>>

(***************************************************************************)
(* PROPERTIES OF THE ANNOUNCEMENT BAR (checked under SpecAnnouncement)     *)
(***************************************************************************)

\* rotation is active: attached (not destroyed), more than one message, not
\* closed, not manually stopped
RotationActive ==
    /\ annPhase = "attached"
    /\ totalMessages > 1
    /\ ~isClosed
    /\ ~manuallyStopped

\* C7: in every state of an attached or destroyed widget, intervalId is
\* non-null if and only if rotation is active.
C7_IntervalIffRotationActive ==
    annPhase # "none" => ((intervalId # NoTimer) <=> RotationActive)

\* C8: once destroy() has run the timer is stopped and stays stopped:
\* intervalId is null and no interval timer of the widget is live, whatever
\* is called afterwards.
C8_DetachedIsTerminal ==
    annPhase = "destroyed" => (intervalId = NoTimer /\ timers = {})

\* closeAnnouncement() ran for section sid less than 30 days ago
DismissalInForce(sid) == \E d \in closedAt[sid] : now < d + DismissalDays

\* this step attaches a widget (construction and init())
Attaches == annPhase = "none" /\ annPhase' = "attached"

\* C9 as stated: attaching a widget for a section dismissed less than 30
\* days ago gives isClosed = true and no timer, whatever the other
\* parameters are.
C9_ReattachStaysClosed_AnyParameters ==
    [][(Attaches /\ DismissalInForce(sectionId')) =>
          (isClosed' /\ intervalId' = NoTimer /\ timers' = {})
      ]_vars

\* C9 amended: the same, for a widget attached with showCloseButton = true.
C9_ReattachStaysClosed ==
    [][(Attaches /\ showCloseButton' /\ DismissalInForce(sectionId')) =>
          (isClosed' /\ intervalId' = NoTimer /\ timers' = {})
      ]_vars

\* C9 witness: on a later day, a widget with several messages and a close
\* button is attached for a dismissed section and init() has closed it
\* without ever starting a timer on this page
C9_Witness ==
    /\ annPhase = "attached"
    /\ showCloseButton
    /\ totalMessages > 1
    /\ DismissalInForce(sectionId)
    /\ now > 0
    /\ isClosed
    /\ nextTimerId = 1
    /\ intervalId = NoTimer

\* C10: every closeAnnouncement() sets isClosed, clears the timer the widget
\* held (intervalId null, that timer no longer live), stores the cookie
\* announcement-<sectionId>-closed=true with a 30-day expiry for this
\* widget's section only, and leaves currentIndex as it was.
C10_CloseStopsAndPersists ==
    [][CloseAnnouncement =>
          /\ isClosed'
          /\ intervalId' = NoTimer
          /\ intervalId \notin timers'
          /\ [name |-> CookieName(sectionId), value |-> "true",
              expires |-> now + DismissalDays] \in cookieJar'
          /\ {c \in cookieJar' : c.name # CookieName(sectionId)} =
             {c \in cookieJar : c.name # CookieName(sectionId)}
          /\ getCookie(CookieName(sectionId), cookieJar', now') = "true"
          /\ currentIndex' = currentIndex
      ]_vars

\* C10 witness: a rotating widget of section "promo" that had advanced was
\* closed: the timer it started is gone, the index is kept, the cookie is set
C10_Witness ==
    /\ annPhase = "attached"
    /\ variant = "tailwind.config.js"
    /\ sectionId = "promo"
    /\ isClosed
    /\ ~manuallyStopped
    /\ nextTimerId > 1
    /\ intervalId = NoTimer
    /\ timers = {}
    /\ currentIndex > 0
    /\ getCookie(CookieName("promo"), cookieJar, now) = "true"
    /\ getCookie(CookieName(""), cookieJar, now) = Null

\* C11: starting from index 0, k next() calls in a row leave the index at
\* k mod total, in the rotator (total = totalMessages) and in the gallery
\* (total = images.length >= 1): the index goes 0, 1, ..., total-1 in order,
\* stays in [0, total), and is 0 again exactly at the multiples of total.
C11_NextCyclesModuloTotal ==
    /\ annPhase # "none" =>
          \A k \in nextRun : currentIndex = k % totalMessages
    /\ (galleryPhase = "attached" /\ Len(images) >= 1) =>
          \A k \in galleryRun : galleryIndex = k % Len(images)

\* C11 witness: both widgets, with more than one entry, are back at index 0
\* after exactly total next() calls in a row
C11_Witness ==
    /\ annPhase = "attached"
    /\ totalMessages > 1
    /\ nextRun = {totalMessages}
    /\ currentIndex = 0
    /\ galleryPhase = "attached"
    /\ Len(images) > 1
    /\ galleryRun = {Len(images)}
    /\ galleryIndex = 0

\* C12: a gallery created with at least one image has
\* 0 <= currentIndex < images.length after its creation and after every
\* next, previous, goTo(i) for any integer i, and key press; next at the
\* last index gives 0 and previous at 0 gives images.length - 1, called
\* directly or through ArrowRight / ArrowLeft.
C12_GalleryIndexInRange ==
    [][(galleryPhase' = "attached" /\ Len(images') >= 1) =>
          /\ galleryIndex' >= 0
          /\ galleryIndex' < Len(images')
          /\ ((GalleryNext \/ GalleryKeydown("ArrowRight"))
                 /\ galleryIndex = Len(images) - 1
              => galleryIndex' = 0)
          /\ ((GalleryPrevious \/ GalleryKeydown("ArrowLeft"))
                 /\ galleryIndex = 0
              => galleryIndex' = Len(images) - 1)
      ]_vars

\* C12 witness: a gallery with the most images stands on its last image
\* after navigation that was not a run of next() calls from index 0
C12_Witness ==
    /\ galleryPhase = "attached"
    /\ Len(images) = MaxImages
    /\ currentImage = ImageFiles(MaxImages)[MaxImages]
    /\ galleryRun = {}
    /\ hasMultipleImages

\* C13: goTo(i) with i < 0 or i >= total changes nothing: the gallery keeps
\* its index, and the rotator keeps its index and its timer (the same
\* intervalId, the same live timers, and the time the pending tick has
\* already waited).
C13_OutOfRangeGoToIsNoOp ==
    [][/\ \A target \in GoToIndexes :
             GalleryGoTo(target) /\ (target < 0 \/ target >= Len(images))
             => UNCHANGED <<galleryIndex, images>>
       /\ \A index \in (0 - 1)..MaxTotal :
             GoToCall(index) /\ (index < 0 \/ index >= totalMessages)
             => UNCHANGED <<currentIndex, intervalId, timers, nextTimerId,
                            elapsed, isPaused, isClosed>>
      ]_vars

\* C13 witness: both widgets stand on a later entry and the rotator's tick
\* is partly waited for, so that an out-of-range goTo has an index and a
\* pending tick to leave alone
C13_Witness ==
    /\ galleryPhase = "attached"
    /\ galleryIndex > 0
    /\ annPhase = "attached"
    /\ currentIndex > 0
    /\ intervalId \in timers
    /\ elapsed[intervalId] > 0
    /\ elapsed[intervalId] < TicksPerInterval
    /\ ENABLED GoToCall(totalMessages)
    /\ ENABLED GalleryGoTo(Len(images))

\* C14: with more than one message, goTo(i) for 0 <= i < totalMessages,
\* called directly or by the digit key i+1 (keys 1 to 3), sets
\* currentIndex = i in the same step and restarts the timer: the timer the
\* widget held is cleared for good (ids are not reused), the only live timer
\* is a new one that has waited for nothing yet, and a timer fires only
\* when it has waited a full interval.
C14_GoToRestartsTimer ==
    [][/\ \A index \in 0..(MaxTotal - 1) :
             /\ \/ GoToCall(index)
                \/ index < 3 /\ Keydown(ToString(index + 1))
             /\ index < totalMessages
             /\ totalMessages > 1
             => /\ currentIndex' = index
                /\ intervalId' # NoTimer
                /\ intervalId' # intervalId
                /\ intervalId' >= nextTimerId
                /\ nextTimerId' > intervalId'
                /\ timers' = {intervalId'}
                /\ elapsed'[intervalId'] = 0
       /\ \A t \in timers : Tick(t) => elapsed[t] = TicksPerInterval
      ]_vars

\* C14 witness: three messages; the widget is on its second message with
\* a timer that is not the first one and has waited for nothing, as after
\* pressing "2"
C14_Witness ==
    /\ annPhase = "attached"
    /\ variant = "alpine-components.js"
    /\ totalMessages = 3
    /\ currentIndex = parseInt("2") - 1
    /\ nextRun = {}
    /\ intervalId > 1
    /\ timers = {intervalId}
    /\ elapsed[intervalId] = 0
    /\ ~isClosed
    /\ ~isPaused

\* C15: while the rotator is paused a timer tick leaves currentIndex as it
\* was; pauseRotation and resumeRotation leave intervalId, the live timers
\* and the time they have waited as they were; a tick of a rotator that is
\* not paused (so also the first one after resumeRotation) advances
\* currentIndex by one modulo totalMessages.
C15_PauseSkipsTicksKeepsTimer ==
    [][/\ (isPaused /\ \E t \in timers : Tick(t))
          => currentIndex' = currentIndex
       /\ (PauseRotation \/ ResumeRotation)
          => UNCHANGED <<intervalId, timers, nextTimerId, elapsed, currentIndex>>
       /\ (~isPaused /\ \E t \in timers : Tick(t))
          => currentIndex' = (currentIndex + 1) % totalMessages
      ]_vars

\* C15 witness: a paused rotator with several messages, past its first
\* message, whose timer is due: the tick that fires now must not advance
C15_Witness ==
    /\ annPhase = "attached"
    /\ isPaused
    /\ totalMessages > 1
    /\ currentIndex > 0
    /\ intervalId \in timers
    /\ elapsed[intervalId] = TicksPerInterval
    /\ ENABLED Tick(intervalId)

\* C19: every timer the widget created, other than the one intervalId
\* refers to, has been cleared: at most one interval timer is live, so one
\* interval brings at most one automatic advance.
C19_AtMostOneLiveTimer ==
    /\ timers \subseteq {intervalId}
    /\ Cardinality(timers) <= 1
    /\ timers \subseteq 1..(nextTimerId - 1)

\* C19 witness: a widget with a single message rotates on its second timer,
\* which only direct startRotation() calls bring about, and the first one
\* is gone
C19_Witness ==
    /\ annPhase = "attached"
    /\ totalMessages = 1
    /\ nextTimerId > 2
    /\ intervalId = nextTimerId - 1
    /\ timers = {intervalId}

\* C18: isLoading is true exactly when a cart request (refreshCart or
\* updateQuantity) has been sent and has not yet ended.
C18_LoadingIffRequestInFlight ==
    isLoading <=> inflight # {}

\* C16: after every scroll event the header handles, isSticky says whether
\* the scroll offset is at or past the recorded top offset of the header
\* (headerOffsetTop, which is the header's offsetTop once the $nextTick
\* callback has run); the boundary is inclusive, and scrolling back above
\* it makes isSticky false again.
C16_StickyIffScrolledToHeader ==
    [][/\ \A y \in ScrollOffsets :
             Scroll(y) /\ headerPhase # "none" /\ stickyEnabled
             => /\ isSticky' <=> (y >= headerOffsetTop)
                /\ headerPhase = "ready" => (isSticky' <=> (y >= offsetTop))
       /\ headerPhase' = "ready" => headerOffsetTop' = offsetTop'
      ]_vars

\* C16 witness: the header, 200 from the top and recorded so, is sticky
\* with the page scrolled to exactly 200
C16_Witness ==
    /\ headerPhase = "ready"
    /\ stickyEnabled
    /\ offsetTop = 200
    /\ headerOffsetTop = 200
    /\ scrollY = 200
    /\ isSticky

\* C17: on a page where only the header locks scroll, body overflow is
\* 'hidden' exactly when mobileMenuOpen; toggleMobileMenu flips
\* mobileMenuOpen; Escape closes an open menu and changes nothing when the
\* menu is closed.
C17_HeaderLockIffMenuOpen ==
    [][/\ headerPhase' # "none" =>
             ((bodyOverflow' = "hidden") <=> mobileMenuOpen')
       /\ ToggleMobileMenu => (mobileMenuOpen' <=> ~mobileMenuOpen)
       /\ CloseMobileMenu => ~mobileMenuOpen'
       /\ (HeaderKeydown("Escape") /\ mobileMenuOpen) => ~mobileMenuOpen'
       /\ (HeaderKeydown("Escape") /\ ~mobileMenuOpen)
             => UNCHANGED <<headerVars, bodyStyleVars>>
      ]_vars

\* C17 witness: the header's menu is open and the body is locked
C17_Witness ==
    /\ headerPhase = "ready"
    /\ mobileMenuOpen
    /\ bodyOverflow = "hidden"
    /\ ~menuIsOpen
    /\ ~isOpen

\* the page cannot be scrolled: body has overflow hidden, by its style or by
\* the class overflow-hidden
ScrollLocked ==
    \/ bodyOverflow = "hidden"
    \/ "overflow-hidden" \in bodyClass

\* C20: whenever the header's menu, the mobileMenu widget or the cart
\* drawer is open, the page's scroll is locked.
C20_LockedWhileAnyOverlayOpen ==
    (mobileMenuOpen \/ menuIsOpen \/ isOpen) => ScrollLocked

====
